---- MODULE Spec2Model ----
(***************************************************************************)
(* Model of the matrix generation of hellofresh/action-changed-files       *)
(* (src/neo/neo.py): update_matches and generate_matrix.                   *)
(*                                                                         *)
(* Strings are TLA+ strings.  Python compares strings by code point; the   *)
(* model compares them by their position in StrOrder, which lists every    *)
(* string of the model in code-point order.  A path is split into its      *)
(* "/"-separated segments by PathSegs.  Every segment is a run of word     *)
(* characters and no segment is a prefix of another, so matching a regular *)
(* expression built from literals, \w+ and a trailing /.* is decided       *)
(* segment by segment.                                                     *)
(***************************************************************************)
EXTENDS Naturals, Sequences, FiniteSets, TLC

\* ---------------------------------------------------------------- bounds
MaxFiles == 2      \* changed files handed to one generate_matrix call

\* ---------------------------------------------------------------- strings
StrOrder ==
  << "added", "app", "blah", "clusters", "clusters/live", "clusters/live/app",
     "clusters/staging", "clusters/staging/app", "clusters/staging/demo",
     "default", "demo", "environment", "live", "modified", "namespace",
     "path", "reason", "removed", "staging", "updated", "zone" >>

StrRank ==
  [ s \in { StrOrder[i] : i \in 1..Len(StrOrder) } |->
      CHOOSE i \in 1..Len(StrOrder) : StrOrder[i] = s ]

\* str.__lt__
StrLess(a, b) == StrRank[a] < StrRank[b]

PathSegs ==
     "blah"                  :> << "blah" >>
  @@ "clusters"              :> << "clusters" >>
  @@ "clusters/live"         :> << "clusters", "live" >>
  @@ "clusters/staging"      :> << "clusters", "staging" >>
  @@ "clusters/live/app"     :> << "clusters", "live", "app" >>
  @@ "clusters/staging/app"  :> << "clusters", "staging", "app" >>
  @@ "clusters/staging/demo" :> << "clusters", "staging", "demo" >>

\* "/".join(segs)
JoinSegs(segs) == CHOOSE p \in DOMAIN PathSegs : PathSegs[p] = segs

IsPrefix(s, t) == Len(s) <= Len(t) /\ SubSeq(t, 1, Len(s)) = s

Range(s) == { s[i] : i \in 1..Len(s) }

\* ---------------------------------------------------------------- inputs
\* the statuses the compare API reports for a changed file
Statuses == { "modified", "removed" }

ChangedPaths ==
  { "blah", "clusters/live/app", "clusters/staging/app", "clusters/staging/demo" }

DirFiles == { "clusters/live/app", "clusters/staging/app", "clusters/staging/demo" }

Dirs == { "clusters/staging" }

Lit(s) == [kind |-> "lit", arg |-> s]
Group(n) == [kind |-> "group", arg |-> n]
Word == [kind |-> "word", arg |-> ""]

\* clusters/.*
RE_path_tail == [elems |-> << Lit("clusters") >>, tail |-> TRUE]
\* clusters/\w+
RE_path == [elems |-> << Lit("clusters"), Word >>, tail |-> FALSE]
\* clusters/(?P<environment>\w+)/.*
RE_env == [elems |-> << Lit("clusters"), Group("environment") >>, tail |-> TRUE]
\* clusters/(?P<environment>\w+)/(?P<namespace>\w+)
RE_env_ns ==
  [elems |-> << Lit("clusters"), Group("environment"), Group("namespace") >>,
   tail |-> FALSE]
\* clusters/(?P<zone>\w+)/.*
RE_zone == [elems |-> << Lit("clusters"), Group("zone") >>, tail |-> TRUE]
\* clusters/(?P<reason>\w+)/.*
RE_reason == [elems |-> << Lit("clusters"), Group("reason") >>, tail |-> TRUE]

Patterns == { RE_path_tail, RE_path, RE_env, RE_env_ns, RE_zone, RE_reason }

\* shell globs: a literal name, or <dir>/*
Glob_blah == [dir |-> "blah", star |-> FALSE]
Glob_staging == [dir |-> "clusters/staging", star |-> TRUE]

DefaultPatternLists ==
  { << >>, << Glob_blah, Glob_staging >> }

\* ---------------------------------------------------------------- re, fnmatch
\* include_regex.match(filename): a match anchored at position 0 that need
\* not reach the end of the string
re_match(re, filename) ==
  LET segs == PathSegs[filename]
      n == Len(re.elems)
  IN /\ IF re.tail THEN Len(segs) > n ELSE Len(segs) >= n
     /\ \A i \in 1..n : re.elems[i].kind = "lit" => segs[i] = re.elems[i].arg

\* match.group(0): the part of filename the pattern consumed
re_group0(re, filename) ==
  IF re.tail THEN filename
  ELSE JoinSegs(SubSeq(PathSegs[filename], 1, Len(re.elems)))

GroupNames(re) ==
  { re.elems[i].arg : i \in { j \in 1..Len(re.elems) : re.elems[j].kind = "group" } }

\* match.groupdict()
groupdict(re, filename) ==
  [ g \in GroupNames(re) |->
      PathSegs[filename][CHOOSE i \in 1..Len(re.elems) :
                            re.elems[i].kind = "group" /\ re.elems[i].arg = g] ]

\* fnmatch.fnmatch(name, pattern)
fnmatch(name, pat) ==
  IF pat.star
    THEN /\ IsPrefix(PathSegs[pat.dir], PathSegs[name])
         /\ Len(PathSegs[name]) > Len(PathSegs[pat.dir])
    ELSE name = pat.dir

\* ---------------------------------------------------------------- hdict
\* the names of a dict in sorted order
RECURSIVE SortedNames(_)
SortedNames(S) ==
  IF S = {} THEN << >>
  ELSE LET m == CHOOSE x \in S : \A y \in S \ {x} : StrLess(x, y)
       IN << m >> \o SortedNames(S \ {m})

\* the (name, value) pairs of a dict in sorted name order
hdict_items(d) ==
  LET names == SortedNames(DOMAIN d)
  IN [ i \in 1..Len(names) |-> << names[i], d[names[i]] >> ]

\* tuple.__lt__ over sequences of (name, value) pairs
TupleLess(s, t) ==
  \E i \in 1..(Len(s) + 1) :
    /\ i <= Len(t)
    /\ \A j \in 1..(i - 1) : s[j] = t[j]
    /\ \/ i = Len(s) + 1
       \/ i <= Len(s) /\ s[i][1] # t[i][1] /\ StrLess(s[i][1], t[i][1])
       \/ i <= Len(s) /\ s[i][1] = t[i][1] /\ s[i][2] # t[i][2]
                      /\ StrLess(s[i][2], t[i][2])

\* hdict.__lt__: the order sorted() uses on the rows
hdict_lt(a, b) == TupleLess(hdict_items(a), hdict_items(b))

\* ---------------------------------------------------------------- matches
\* a dict from key to a set of statuses, with the keys in insertion order
EmptyMatches == [keys |-> << >>, st |-> << >>]

\* key in list(matches.keys())
HasKey(m, key) == key \in Range(m.keys)

\* matches.pop(key)
DropKey(m, key) ==
  [keys |-> SelectSeq(m.keys, LAMBDA k : k # key),
   st |-> [k \in Range(m.keys) \ {key} |-> m.st[k]]]

\* set.pop() takes an arbitrary element of the set: the element is the one
\* the choice function pop names for that set
PopChoices == { f \in [SUBSET Statuses \ {{}} -> Statuses] :
                  \A S \in DOMAIN f : f[S] \in S }

\* ---------------------------------------------------------------- update_matches
\* variant: the key of a pattern without groups is the text the pattern
\* consumed, match.group(0), instead of the filename
match_key_group0(re, filename) ==
  IF GroupNames(re) # {} THEN groupdict(re, filename)
  ELSE [path |-> re_group0(re, filename)]

\* the key of a matching file
match_key(re, filename) ==
  IF GroupNames(re) # {} THEN groupdict(re, filename)
  ELSE [path |-> filename]

\* variant: a list of (key, status) entries instead of a dict, every matching
\* file appends its key
matches_add_dup(m, key, status) ==
  [keys |-> Append(m.keys, key),
   st |-> IF HasKey(m, key) THEN [m.st EXCEPT ![key] = @ \cup {status}]
          ELSE m.st @@ (key :> {status})]

\* matches[key].add(status)
matches_add(m, key, status) ==
  IF HasKey(m, key) THEN [m EXCEPT !.st[key] = @ \cup {status}]
  ELSE [keys |-> Append(m.keys, key), st |-> m.st @@ (key :> {status})]

\* the loop over files from position i on: a file that does not match is
\* skipped, a group named reason raises, a key found in old is popped from it
\* and one status of its old set, whichever set.pop() gives, replaces the
\* file's status
RECURSIVE um_loop(_, _, _, _, _, _)
um_loop(files, i, re, old, matches, pop) ==
  IF i > Len(files) THEN [raised |-> FALSE, matches |-> matches, old |-> old]
  ELSE
    LET filename == files[i][1]
        status == files[i][2]
    IN IF ~re_match(re, filename)
         THEN um_loop(files, i + 1, re, old, matches, pop)
       ELSE IF "reason" \in DOMAIN groupdict(re, filename)
         THEN [raised |-> TRUE, matches |-> matches, old |-> old]
       ELSE
         LET key == match_key(re, filename)
             seen == HasKey(old, key)
             st == IF seen THEN pop[old.st[key]] ELSE status
             old2 == IF seen THEN DropKey(old, key) ELSE old
         IN um_loop(files, i + 1, re, old2, matches_add(matches, key, st), pop)

\* variant: matches = old_matches, the loop fills the dict it was given
update_matches_into_old(files, re, old_matches, pop) ==
  LET r == um_loop(files, 1, re, EmptyMatches, old_matches, pop)
  IN [raised |-> r.raised, matches |-> r.matches, old |-> r.matches]

\* returns the fresh dict it filled; old is what is left of old_matches
update_matches(files, re, old_matches, pop) ==
  um_loop(files, 1, re, old_matches, EmptyMatches, pop)

\* ---------------------------------------------------------------- generate_matrix
\* the default patterns that some changed file matches
matched_default_patterns(changed_files, default_patterns) ==
  SelectSeq(default_patterns,
            LAMBDA pat : \E i \in 1..Len(changed_files) :
                            fnmatch(changed_files[i][1], pat))

\* variant: "or" in place of "and"
expansion_due_any(matches, dflt, matched) ==
  matches.keys = << >> \/ dflt \/ matched # << >>

\* variant: only the default patterns trigger the expansion
expansion_due_patterns_only(matches, dflt, matched) ==
  matched # << >>

\* (not matches and defaults) or matched_default_patterns
expansion_due(matches, dflt, matched) ==
  (matches.keys = << >> /\ dflt) \/ matched # << >>

Ancestors(f) ==
  { d \in DOMAIN PathSegs :
      IsPrefix(PathSegs[d], PathSegs[f]) /\ Len(PathSegs[d]) < Len(PathSegs[f]) }

\* os.walk(default_dir) with its default onerror=None: a directory that
\* cannot be listed (the root included) is skipped without an error, so the
\* walk yields the files all of whose directories can be listed; each is
\* made relative to the root
os_walk(dir) ==
  IF ~dir.exists THEN {}
  ELSE { f \in dir.files : Ancestors(f) \cap dir.unreadable = {} }

\* an error os.walk met and dropped
walk_error(dir) == ~dir.exists \/ dir.unreadable # {}

\* statuses.pop() if len(statuses) == 1 else "updated"
resolve_reason(statuses) ==
  IF Cardinality(statuses) = 1 THEN CHOOSE s \in statuses : TRUE ELSE "updated"

\* the rows in the order of matches.items()
status_matrix(matches) ==
  [ i \in 1..Len(matches.keys) |->
      matches.keys[i] @@ ("reason" :> resolve_reason(matches.st[matches.keys[i]])) ]

RECURSIVE insert_sorted(_, _)
insert_sorted(x, s) ==
  IF s = << >> THEN << x >>
  ELSE IF hdict_lt(x, Head(s)) THEN << x >> \o s
  ELSE << Head(s) >> \o insert_sorted(x, Tail(s))

RECURSIVE sort_rows(_)
sort_rows(rows) ==
  IF rows = << >> THEN << >>
  ELSE insert_sorted(rows[Len(rows)], sort_rows(SubSeq(rows, 1, Len(rows) - 1)))

\* variant: the rows in the order of matches.items()
sorted_not(rows) == rows

\* sorted(status_matrix)
sorted(rows) == sort_rows(rows)

Orderings(S) ==
  { s \in [1..Cardinality(S) -> S] : \A i, j \in DOMAIN s : i # j => s[i] # s[j] }

\* the files of the walk, each with the status default
default_files(walked) == [ i \in 1..Len(walked) |-> << walked[i], "default" >> ]

\* ---------------------------------------------------------------- state
VARIABLES
  files,              \* the changed files of the comparison, (filename, status)
  include_regex,      \* --pattern
  defaults,           \* --defaults
  default_patterns,   \* --default-patterns
  default_dir,        \* the root directory: its files and what cannot be listed
  old_matches,        \* the default value of update_matches' old_matches
  ret,                \* what the last call gave
  seen_before         \* an earlier call of this process recorded a key

vars == << files, include_regex, defaults, default_patterns, default_dir,
           old_matches, ret, seen_before >>

NotCalled ==
  [kind |-> "none", matrix |-> << >>, matches |-> EmptyMatches, expanded |-> FALSE]

Roots ==
  { [exists |-> FALSE, files |-> {}, unreadable |-> {}] }
  \cup
  { [exists |-> TRUE, files |-> F, unreadable |-> U] :
      F \in SUBSET DirFiles,
      U \in { {} } \cup { {d} : d \in Dirs } }

\* a comparison lists each changed file once, with one status
ChangedFileSets ==
  { X \in SUBSET (ChangedPaths \X Statuses) :
      /\ Cardinality(X) <= MaxFiles
      /\ \A f, g \in X : f[1] = g[1] => f = g }

Init ==
  /\ files \in ChangedFileSets
  /\ include_regex \in Patterns
  /\ defaults \in BOOLEAN
  /\ default_patterns \in DefaultPatternLists
  /\ default_dir \in { r \in Roots : \A d \in r.unreadable :
                                        \E f \in r.files : d \in Ancestors(f) }
  /\ old_matches = EmptyMatches
  /\ ret = NotCalled
  /\ seen_before = FALSE

\* generate_matrix(files, include_regex, defaults, default_patterns, default_dir):
\* changed_files is the list in the caller's order, walked the files of the
\* walk in the order os.walk yields them, pop the choices of set.pop()
GenerateMatrix ==
  \E changed_files \in Orderings(files), walked \in Orderings(os_walk(default_dir)),
     pop \in PopChoices :
    \E first \in { update_matches(changed_files, include_regex, old_matches, pop) } :
    \E expand \in { /\ ~first.raised
                    /\ expansion_due(first.matches, defaults,
                          matched_default_patterns(changed_files, default_patterns)) } :
    \E second \in { IF expand
                      THEN update_matches(default_files(walked), include_regex,
                                          first.matches, pop)
                      ELSE first } :
      /\ ret' = [ kind |-> IF second.raised THEN "ValueError" ELSE "return",
                  matrix |-> IF second.raised THEN << >>
                             ELSE sorted(status_matrix(second.matches)),
                  matches |-> second.matches,
                  expanded |-> expand ]
      /\ old_matches' = first.old
      /\ UNCHANGED << files, include_regex, defaults, default_patterns, default_dir,
                      seen_before >>

Next == GenerateMatrix

Spec == Init /\ [][Next]_vars

\* ---------------------------------------------------------------- a process that makes several calls
\* update_matches(files, include_regex) called on its own, old_matches left
\* to its default value
UpdateMatches ==
  \E changed_files \in Orderings(files), pop \in PopChoices :
    \E r \in { update_matches(changed_files, include_regex, old_matches, pop) } :
      /\ ret' = [ kind |-> IF r.raised THEN "ValueError" ELSE "matches",
                  matrix |-> << >>,
                  matches |-> r.matches,
                  expanded |-> FALSE ]
      /\ old_matches' = r.old
      /\ UNCHANGED << files, include_regex, defaults, default_patterns, default_dir,
                      seen_before >>

\* the process goes on to its next call with the files of another comparison,
\* as the test methods of one test run do
NewComparison ==
  /\ ret.kind # "none"
  /\ files' \in ChangedFileSets
  /\ ret' = NotCalled
  /\ seen_before' = (seen_before \/ ret.matches.keys # << >>)
  /\ UNCHANGED << include_regex, defaults, default_patterns, default_dir, old_matches >>

\* the checkout the calls of the process share: it exists, all of it can be
\* listed, and it holds one file of each environment
Checkout ==
  [exists |-> TRUE, files |-> { "clusters/live/app", "clusters/staging/app" },
   unreadable |-> {}]

InitCalls == Init /\ default_dir = Checkout

NextCalls == GenerateMatrix \/ UpdateMatches \/ NewComparison

SpecCalls == InitCalls /\ [][NextCalls]_vars

\* ---------------------------------------------------------------- vocabulary of the properties
Called == ret.kind # "none"
Returned == ret.kind = "return"
Rows == Range(ret.matrix)

\* a row without its reason
RowKey(row) == [ n \in DOMAIN row \ {"reason"} |-> row[n] ]

RowsOfKey(key) == { i \in DOMAIN ret.matrix : RowKey(ret.matrix[i]) = key }

NoNamedGroups == GroupNames(include_regex) = {}

MatchingChanged == { f \in files : re_match(include_regex, f[1]) }
ChangedKeys == { match_key(include_regex, f[1]) : f \in MatchingChanged }
ChangedStatuses(key) ==
  { f[2] : f \in { g \in MatchingChanged : match_key(include_regex, g[1]) = key } }

MatchingWalked == { f \in os_walk(default_dir) : re_match(include_regex, f) }
WalkKeys == { match_key(include_regex, f) : f \in MatchingWalked }

\* the statuses of every file that maps to key: the changed files and, when
\* the expansion ran, the files of the walk
ContributingStatuses(key) ==
  ChangedStatuses(key)
  \cup (IF ret.expanded /\ key \in WalkKeys THEN {"default"} ELSE {})

ExpectedReason(S) == IF \E x \in S : S = {x} THEN CHOOSE x \in S : TRUE ELSE "updated"

TriggerNothingMatched == ChangedKeys = {} /\ defaults
TriggerDefaultPattern ==
  \E f \in files : \E i \in DOMAIN default_patterns : fnmatch(f[1], default_patterns[i])

\* a before b: at the first field name, in sorted order, where they differ
RowBefore(a, b) ==
  \E n \in DOMAIN a :
    /\ a[n] # b[n]
    /\ StrLess(a[n], b[n])
    /\ \A m \in DOMAIN a : StrLess(m, n) => a[m] = b[m]

\* ---------------------------------------------------------------- properties

\* C1: every returned row's reason is the single status of the files that
\* contribute to its key (changed files and, when the expansion runs, the
\* files of the walk), or "updated" when they carry two or more statuses.
C1_ReasonOfAllContributors ==
  Returned =>
    \A row \in Rows : row.reason = ExpectedReason(ContributingStatuses(RowKey(row)))

\* C2: when the expansion runs, every key the changed files recorded is
\* still in the matches when the reason is resolved, with every status the
\* changed files gave it, and has a row in the output.
C2_ExpansionKeepsMatches ==
  (Returned /\ ret.expanded) =>
    \A key \in ChangedKeys :
      /\ HasKey(ret.matches, key)
      /\ ChangedStatuses(key) \subseteq ret.matches.st[key]
      /\ RowsOfKey(key) # {}

\* C3: a call with a pattern that has a group named reason fails, whatever
\* the changed files are.
C3_ReservedNameAlwaysFails ==
  (Called /\ "reason" \in GroupNames(include_regex)) => ret.kind = "ValueError"

\* C4: no two returned rows have the same key, and the files that map to one
\* key give one row: the changed files when no expansion ran, the files of
\* the walk when it ran.
C4_OneRowPerKey ==
  Returned =>
    /\ \A i, j \in DOMAIN ret.matrix :
         i # j => RowKey(ret.matrix[i]) # RowKey(ret.matrix[j])
    /\ \A key \in (IF ret.expanded THEN WalkKeys ELSE ChangedKeys) :
         Cardinality(RowsOfKey(key)) = 1

C4_Witness ==
  /\ Returned
  /\ \E f, g \in MatchingChanged :
       /\ f[1] # g[1]
       /\ match_key(include_regex, f[1]) = match_key(include_regex, g[1])
       /\ RowsOfKey(match_key(include_regex, f[1])) # {}
  /\ Len(ret.matrix) >= 2

\* C5: with a pattern without named groups every row has the fields path and
\* reason only, path is the whole name of an input file that matched, and a
\* changed file that does not match has no row.
C5_PathRows ==
  (Returned /\ NoNamedGroups) =>
    /\ \A row \in Rows :
         /\ DOMAIN row = {"path", "reason"}
         /\ row.path \in { f[1] : f \in MatchingChanged }
                         \cup (IF ret.expanded THEN MatchingWalked ELSE {})
    /\ \A f \in files \ MatchingChanged : \A row \in Rows : row.path # f[1]

C5_Witness ==
  /\ Returned
  /\ include_regex = RE_path
  /\ files \ MatchingChanged # {}
  /\ \E row \in Rows : re_group0(include_regex, row.path) # row.path

\* C6: when neither trigger holds no expansion runs: the rows are the keys of
\* the matching changed files, one each, with the reason their statuses
\* give; nothing matched and defaults disabled gives the empty sequence.
C6_NoTriggerNoExpansion ==
  (Called /\ ~TriggerNothingMatched /\ ~TriggerDefaultPattern) =>
    /\ ~ret.expanded
    /\ Returned =>
         /\ { RowKey(row) : row \in Rows } = ChangedKeys
         /\ Len(ret.matrix) = Cardinality(ChangedKeys)
         /\ \A row \in Rows :
              row.reason = ExpectedReason(ChangedStatuses(RowKey(row)))
         /\ (ChangedKeys = {} /\ ~defaults) => ret.matrix = << >>

C6_Witness ==
  /\ Returned
  /\ ~TriggerNothingMatched /\ ~TriggerDefaultPattern
  /\ defaults
  /\ default_patterns # << >>
  /\ ret.matrix # << >>
  /\ WalkKeys \ ChangedKeys # {}

C6_WitnessEmpty ==
  /\ Returned
  /\ ~defaults
  /\ files # {}
  /\ ChangedKeys = {}
  /\ WalkKeys # {}
  /\ ret.matrix = << >>

\* C7: when no changed file matches and defaults are enabled, a call that
\* returns gives one row for each key of the files found under the root,
\* each with the reason default.
C7_DefaultsWhenNothingMatched ==
  (Returned /\ ChangedKeys = {} /\ defaults) =>
    /\ { RowKey(row) : row \in Rows } = WalkKeys
    /\ Len(ret.matrix) = Cardinality(WalkKeys)
    /\ \A row \in Rows : row.reason = "default"

C7_Witness ==
  /\ Returned
  /\ ChangedKeys = {} /\ defaults
  /\ files # {}
  /\ ~TriggerDefaultPattern
  /\ Cardinality(WalkKeys) >= 2
  /\ Len(ret.matrix) >= 2

\* C8: a second call on the same set of changed files and the same files
\* under the root, in any order, returns the sequence the first returned.
C8_SameInputsSameRows ==
  [][(ret.kind = "return" /\ ret'.kind = "return") => ret'.matrix = ret.matrix]_vars

\* C9: a call whose walk of the root meets a directory it cannot list, or a
\* root that does not exist, fails and returns no matrix.
C9_WalkErrorsFail ==
  (Called /\ ret.expanded /\ walk_error(default_dir)) => ret.kind # "return"

\* C10: the returned rows are in strictly ascending order of their (field
\* name, value) pairs taken in sorted field-name order, reason included;
\* without named groups and with one reason that is ascending order of path.
C10_RowsAscending ==
  Returned =>
    /\ \A i \in 1..(Len(ret.matrix) - 1) : RowBefore(ret.matrix[i], ret.matrix[i + 1])
    /\ (NoNamedGroups /\ Cardinality({ row.reason : row \in Rows }) = 1) =>
         \A i \in 1..(Len(ret.matrix) - 1) :
           StrLess(ret.matrix[i].path, ret.matrix[i + 1].path)

C10_Witness ==
  /\ Returned
  /\ include_regex = RE_zone
  /\ \E i, j \in DOMAIN ret.matrix :
       /\ i < j
       /\ StrLess(ret.matrix[i].reason, ret.matrix[j].reason)
       /\ StrLess(ret.matrix[j].zone, ret.matrix[i].zone)

C10_WitnessPath ==
  /\ Returned
  /\ NoNamedGroups
  /\ Len(ret.matrix) >= 2
  /\ Cardinality({ row.reason : row \in Rows }) = 1

\* ---------------------------------------------------------------- calls of one process
\* generate_matrix as the first call of a process: old_matches is the empty
\* dict the def statement built
fresh_generate_matrix(changed_files, walked, pop) ==
  LET first == update_matches(changed_files, include_regex, EmptyMatches, pop)
      expand == /\ ~first.raised
                /\ expansion_due(first.matches, defaults,
                      matched_default_patterns(changed_files, default_patterns))
      second == IF expand
                  THEN update_matches(default_files(walked), include_regex,
                                      first.matches, pop)
                  ELSE first
  IN [ kind |-> IF second.raised THEN "ValueError" ELSE "return",
       matrix |-> IF second.raised THEN << >>
                  ELSE sorted(status_matrix(second.matches)),
       matches |-> second.matches,
       expanded |-> expand ]

\* update_matches as the first call of a process
fresh_update_matches(changed_files, pop) ==
  LET r == update_matches(changed_files, include_regex, EmptyMatches, pop)
  IN [ kind |-> IF r.raised THEN "ValueError" ELSE "matches",
       matrix |-> << >>,
       matches |-> r.matches,
       expanded |-> FALSE ]

\* r is what generate_matrix can give as the first call of a process
FreshOutcome(r) ==
  \E c \in Orderings(files), w \in Orderings(os_walk(default_dir)), p \in PopChoices :
    r = fresh_generate_matrix(c, w, p)

\* r is what update_matches can give as the first call of a process
FreshMatches(r) ==
  \E c \in Orderings(files), p \in PopChoices : r = fresh_update_matches(c, p)

\* C11: after any sequence of update_matches and generate_matrix calls the
\* default value of old_matches is empty, and what a call gave is what the
\* same call gives as the first call of a process.
C11_NoStateAcrossCalls ==
  /\ old_matches = EmptyMatches
  /\ ret.kind = "return" => FreshOutcome(ret)
  /\ ret.kind = "matches" => FreshMatches(ret)
  /\ ret.kind = "ValueError" => (FreshOutcome(ret) \/ FreshMatches(ret))

C11_Witness ==
  /\ seen_before
  /\ ret.kind = "return"
  /\ ret.expanded
  /\ ret.matches.keys # << >>
  /\ ChangedKeys # {}

====
